---- MODULE Spec2Model ----
(***************************************************************************)
(* RandomProjectionClustering.main_function                                *)
(* (sortingcomponents/clustering/random_projections.py) as a state machine.*)
(*                                                                         *)
(* Spec            any sequence of calls of main_function that share one   *)
(*                 params mapping, one process-wide numpy generator and    *)
(*                 one file system.                                        *)
(* SpecJobs        one call, for every caller-supplied job configuration.  *)
(* SpecPipeline    the chunked run of the node pipeline, chunk tasks       *)
(*                 completing in any order.                                *)
(* SpecConcurrent  two calls interleaved in one process, lines 82-108.     *)
(*                                                                         *)
(* Values of dictionaries are strings ("None" is Python's None); arrays    *)
(* are sequences; a single-segment recording is assumed, so a peak is its  *)
(* sample index.                                                           *)
(***************************************************************************)
EXTENDS Integers, Sequences, FiniteSets, TLC

\* ------------------------------------------------------------------ bounds
MaxPeaks == 2
NumChunks == 3
ChunkLen == 2
MaxChans == 3
MaxWorkers == 2

\* ------------------------------------------------------- program constants
Sentinel == -1
default_random_seed == 42
default_nb_projections == 10

None == "None"
NoArray == <<>>

\* ------------------------------------------------------------------ helpers
Range(s) == {s[i] : i \in DOMAIN s}

Min(a, b) == IF a < b THEN a ELSE b

arange(n) == [i \in 1..n |-> i - 1]

DictSet(d, k, v) == [x \in (DOMAIN d) \cup {k} |-> IF x = k THEN v ELSE d[x]]

\* ------------------------------------------------------------- recordings
\* A recording is named by an integer; recording r has r channels.
Recordings == {1, 2}

get_num_channels(rec) == rec

Channels(rec) == 1..get_num_channels(rec)

\* One noise level per channel, estimated from the recording's own samples.
get_noise_levels(rec) == [c \in Channels(rec) |-> 10 * rec + c]

\* -------------------------------------------------- job configuration
JobKeys == {"n_jobs", "chunk_size", "chunk_memory", "total_memory",
            "chunk_duration", "verbose", "progress_bar"}

ChunkKeys == {"chunk_size", "chunk_memory", "total_memory", "chunk_duration"}

CallerValue(k) ==
    CASE k = "n_jobs" -> "2"
      [] k = "chunk_size" -> "30000"
      [] k = "chunk_memory" -> "10M"
      [] k = "total_memory" -> "1G"
      [] k = "chunk_duration" -> "1s"
      [] k = "verbose" -> "True"
      [] k = "progress_bar" -> "True"

CallerJobKwargs == {[k \in S |-> CallerValue(k)] : S \in SUBSET JobKeys}

\* The caller's options over the library defaults; a caller who gives a
\* chunk-sizing option replaces the default chunk_duration.
fix_job_kwargs(jk) ==
    LET defaults == IF (DOMAIN jk) \cap ChunkKeys = {}
                    THEN {"n_jobs", "progress_bar", "chunk_duration"}
                    ELSE {"n_jobs", "progress_bar"}
        DefaultValue(k) == CASE k = "n_jobs" -> "1"
                             [] k = "progress_bar" -> "True"
                             [] k = "chunk_duration" -> "1s"
    IN [k \in (DOMAIN jk) \cup defaults |->
            IF k \in DOMAIN jk THEN jk[k] ELSE DefaultValue(k)]

\* Variant: the worker count is left as the caller gave it.
BuildCleaningParams_KeepJobs(jk) ==
    LET cleared == [k \in DOMAIN jk |-> IF k \in ChunkKeys THEN None ELSE jk[k]]
    IN DictSet(DictSet(DictSet(cleared, "chunk_duration", "100ms"),
                       "verbose", "False"), "progress_bar", "False")

\* lines 164-171: a copy of job_kwargs with the chunk-sizing options that are
\* present set to None, then the four merge settings.
BuildCleaningParams(jk) ==
    LET cleared == [k \in DOMAIN jk |-> IF k \in ChunkKeys THEN None ELSE jk[k]]
    IN DictSet(DictSet(DictSet(DictSet(cleared, "chunk_duration", "100ms"),
                               "n_jobs", "1"), "verbose", "False"),
               "progress_bar", "False")

\* ------------------------------------------- numpy's process-wide generator
\* The generator is a deterministic stream decided by its state: a full-period
\* linear congruential generator over 0..15 stands for numpy's.
NextRand(x) == (5 * x + 3) % 16

np_random_seed(s) == s % 16

RECURSIVE Draws(_, _)
Draws(st, n) == IF n = 0 THEN <<>> ELSE <<NextRand(st)>> \o Draws(NextRand(st), n - 1)

RECURSIVE StateAfter(_, _)
StateAfter(st, n) == IF n = 0 THEN st ELSE StateAfter(NextRand(st), n - 1)

\* np.random.randn(rows, cols), filled row by row.
randn(st, rows, cols) ==
    LET d == Draws(st, rows * cols)
    IN [r \in 1..rows |-> [c \in 1..cols |-> d[(r - 1) * cols + c]]]

RECURSIVE ColSum(_, _, _)
ColSum(m, c, r) == IF r = 0 THEN 0 ELSE m[r][c] + ColSum(m, c, r - 1)

RECURSIVE ColSquares(_, _, _, _)
ColSquares(m, c, r, rows) ==
    IF r = 0 THEN 0
    ELSE (rows * m[r][c] - ColSum(m, c, rows)) * (rows * m[r][c] - ColSum(m, c, rows))
         + ColSquares(m, c, r - 1, rows)

\* lines 106-108.  An entry is kept exactly, as the pair <<num, ss>> that
\* stands for num / sqrt(ss / rows): num is the entry minus the column mean
\* (times rows) and ss the column's sum of squares of those differences.
\* ss = 0 is numpy's nan (a column of equal draws).
Normalise(m, rows, cols) ==
    IF rows > 1
    THEN [r \in 1..rows |-> [c \in 1..cols |->
             <<rows * m[r][c] - ColSum(m, c, rows), ColSquares(m, c, rows, rows)>>]]
    ELSE [r \in 1..rows |-> [c \in 1..cols |-> <<m[r][c], 1>>]]

num_projections(num_chans, nb_proj) == Min(num_chans, nb_proj)

\* lines 104-108: the basis drawn from generator state st.
Projections(st, num_chans, nb_proj) ==
    Normalise(randn(st, num_chans, num_projections(num_chans, nb_proj)),
              num_chans, num_projections(num_chans, nb_proj))

\* -------------------------------------------------------- node pipeline
NumSamples == NumChunks * ChunkLen

ChunkIds == 1..NumChunks

ChunkOf(sample) == (sample \div ChunkLen) + 1

\* PeakRetriever: the peaks (by position in the peak list) of one chunk.
ChunkPeaks(pk, k) == SelectSeq([i \in DOMAIN pk |-> i], LAMBDA i : ChunkOf(pk[i]) = k)

\* ExtractSparseWaveforms -> SavGolDenoiser -> RandomProjectionsFeature of one
\* peak: the feature vector of that peak under the basis.
FeatureOf(pk, i, basis) == [peak |-> i, sample_index |-> pk[i], basis |-> basis]

ChunkOutput(pk, k, basis) ==
    [j \in DOMAIN ChunkPeaks(pk, k) |-> FeatureOf(pk, ChunkPeaks(pk, k)[j], basis)]

RECURSIVE ConcatIn(_, _)
ConcatIn(res, ord) ==
    IF ord = <<>> THEN <<>> ELSE res[Head(ord)] \o ConcatIn(res, Tail(ord))

\* Variant: outputs put together in the order the tasks finished.
AssembleOrder_Completion(completion) == completion

\* The executor puts the chunk outputs together by chunk index.
AssembleOrder(completion) == [k \in ChunkIds |-> k]

run_node_pipeline(pk, basis) ==
    ConcatIn([k \in ChunkIds |-> ChunkOutput(pk, k, basis)], AssembleOrder(<<>>))

\* Sorted peak lists (peaks are sorted by sample index on input).
SortedPeaks(n) ==
    {p \in [1..n -> 0..(NumSamples - 1)] : \A i \in 1..n : \A j \in 1..n : i < j => p[i] <= p[j]}

\* One peak list per length, for the runs that do not look at chunking.
SpreadPeaks(n) == [i \in 1..n |-> Min(i - 1, NumSamples - 1)]

\* -------------------------------------------------------------- clustering
\* hdbscan: one label per row, the non-sentinel ones being 0..K-1.
Labelings(n) ==
    {l \in [1..n -> Sentinel..(n - 1)] :
        \A v \in Range(l) : v > 0 => (v - 1) \in Range(l)}

\* Variant: the comparison of line 138 off by one.
SpikeMask_WithNoise(pl) == [i \in DOMAIN pl |-> pl[i] >= Sentinel]

\* line 138
SpikeMask(pl) == [i \in DOMAIN pl |-> pl[i] > Sentinel]

\* lines 137-141
Spikes(pk, pl) ==
    LET idx == SelectSeq([i \in DOMAIN pl |-> i], LAMBDA i : SpikeMask(pl)[i])
    IN [j \in DOMAIN idx |-> [sample_index |-> pk[idx[j]], unit_index |-> pl[idx[j]]]]

\* Variant: unit ids numbered from one.
UnitIds_FromOne(sp) ==
    [i \in 1..Cardinality({sp[j].unit_index : j \in DOMAIN sp}) |-> i]

\* line 143
UnitIds(sp) == arange(Cardinality({sp[j].unit_index : j \in DOMAIN sp}))

\* estimate_templates + Templates: one dense template per unit id.
DenseTemplates(rec, uids) ==
    [i \in DOMAIN uids |-> [unit_id |-> uids[i], channels |-> Channels(rec)]]

\* compute_sparsity: a channel mask per unit, decided by the data.
SparsityMasks(rec, uids) == [Range(uids) -> SUBSET Channels(rec)]

to_sparse(tpl, mask) ==
    [i \in DOMAIN tpl |-> [unit_id |-> tpl[i].unit_id, channels |-> mask[tpl[i].unit_id]]]

remove_empty_templates(tpl) == SelectSeq(tpl, LAMBDA t : t.channels # {})

\* Variant: line 159 left out.
SparseTemplates_KeepEmpty(tpl, mask) == to_sparse(tpl, mask)

\* lines 158-159
SparseTemplates(tpl, mask) == remove_empty_templates(to_sparse(tpl, mask))

TemplateIds(tpl) == {tpl[i].unit_id : i \in DOMAIN tpl}

\* Variant: the labels of the spikes (line 141) in place of all labels.
LabelsForMerge_SpikesOnly(pl) == SelectSeq(pl, LAMBDA v : v > Sentinel)

\* line 177: the per-peak labels handed to the merge step.
LabelsForMerge(pl) == pl

\* remove_duplicates_via_matching: the units dup (a map from a duplicate unit
\* to the surviving unit it is merged into, or to the sentinel) are taken out
\* of the unit list and their peaks relabelled; nothing else is touched.
MergeChoices(tpl) ==
    UNION {[D -> (TemplateIds(tpl) \ D) \cup {Sentinel}] : D \in SUBSET TemplateIds(tpl)}

MergedUnits(tpl, dup) ==
    LET kept == SelectSeq(tpl, LAMBDA t : t.unit_id \notin DOMAIN dup)
    IN [i \in DOMAIN kept |-> kept[i].unit_id]

MergedLabels(pl, dup) ==
    [i \in DOMAIN pl |-> IF pl[i] \in DOMAIN dup THEN dup[pl[i]] ELSE pl[i]]

\* ------------------------------------------------------------ file system
TmpNames == {"/global/AAAAAAAA", "/global/BBBBBBBB"}

UserFolder == "/user/tmp"

\* lines 84-88
TmpFolderChoices(param) == IF param = None THEN TmpNames ELSE {param}


\* =================================================================== state
VARIABLES
    pc,                     \* position of the current call in main_function
    fault,                  \* the collaborator that raises in this call, or "none"
    recording, peaks,       \* the call's arguments
    params_job_kwargs, params_noise_levels, params_tmp_folder, params_random_seed,
    supplied_noise,         \* params["noise_levels"] as the caller built params
    noise_at_call,          \* params["noise_levels"] when the current call began
    np_random,              \* state of numpy's process-wide generator
    dirs,                   \* directories that exist
    job_kwargs, tmp_folder, projections, hdbscan_data, peak_labels, spikes,
    unit_ids, templates, sparsity, used_noise, cleaning_matching_params,
    extract_job, templates_job,   \* job configuration the two passes ran with
    merge_in,               \* arguments remove_duplicates_via_matching received
    duplicates,             \* the duplicates it found
    out_labels, out_peak_labels,  \* the pair main_function returned
    p_pc, p_workers, p_next, p_inflight, p_results, p_order,   \* pipeline run
    t_pc, t_seed, t_chans, t_nbproj, t_basis                   \* interleaved calls

paramVars == <<params_job_kwargs, params_tmp_folder, params_random_seed, supplied_noise>>

argVars == <<fault, recording, peaks, noise_at_call>>

localVars == <<job_kwargs, tmp_folder, projections, hdbscan_data, peak_labels, spikes,
               unit_ids, templates, sparsity, used_noise, cleaning_matching_params,
               extract_job, templates_job, merge_in, duplicates, out_labels,
               out_peak_labels>>

pipeVars == <<p_pc, p_workers, p_next, p_inflight, p_results, p_order>>

threadVars == <<t_pc, t_seed, t_chans, t_nbproj, t_basis>>

vars == <<pc, paramVars, argVars, localVars, params_noise_levels, np_random, dirs,
          pipeVars, threadVars>>

Faults == {"none", "no_hdbscan", "extract", "cluster", "templates", "noise",
           "sparsity", "merge"}

SuppliedNoise == <<5, 5>>

NoDict == [k \in {} |-> None]

NoMergeIn == [templates |-> <<>>, peak_labels |-> <<>>, job_kwargs |-> NoDict,
              tmp_folder |-> None]

\* The locals of a call that has not run yet.
FreshLocals ==
    /\ job_kwargs = NoDict
    /\ tmp_folder = None
    /\ projections = <<>>
    /\ hdbscan_data = <<>>
    /\ peak_labels = <<>>
    /\ spikes = <<>>
    /\ unit_ids = <<>>
    /\ templates = <<>>
    /\ sparsity = <<>>
    /\ used_noise = NoArray
    /\ cleaning_matching_params = NoDict
    /\ extract_job = NoDict
    /\ templates_job = NoDict
    /\ merge_in = NoMergeIn
    /\ duplicates = <<>>
    /\ out_labels = <<>>
    /\ out_peak_labels = <<>>

IdlePipeline ==
    /\ p_pc = "idle"
    /\ p_workers = 1
    /\ p_next = 1
    /\ p_inflight = {}
    /\ p_results = [k \in ChunkIds |-> <<>>]
    /\ p_order = <<>>

Threads == {1, 2}

IdleThreads ==
    /\ t_pc = [t \in Threads |-> "idle"]
    /\ t_seed = [t \in Threads |-> default_random_seed]
    /\ t_chans = [t \in Threads |-> 1]
    /\ t_nbproj = [t \in Threads |-> default_nb_projections]
    /\ t_basis = [t \in Threads |-> <<>>]

ParamsInit(jobs) ==
    /\ params_job_kwargs \in jobs
    /\ params_noise_levels \in {NoArray, SuppliedNoise}
    /\ params_tmp_folder \in {None, UserFolder}
    /\ params_random_seed = default_random_seed
    /\ supplied_noise = params_noise_levels
    /\ noise_at_call = params_noise_levels
    /\ np_random = 0
    /\ dirs = {}

InitWith(jobs, peakLists, faults) ==
    /\ pc = "start"
    /\ fault \in faults
    /\ recording \in Recordings
    /\ peaks \in peakLists
    /\ ParamsInit(jobs)
    /\ FreshLocals
    /\ IdlePipeline
    /\ IdleThreads

Init == InitWith({NoDict}, {SpreadPeaks(n) : n \in 0..MaxPeaks}, Faults)

\* ================================================================= actions
\* Where each collaborator is called from.
FaultAt(p) ==
    CASE p = "start" -> {"no_hdbscan"}
      [] p = "nodes" -> {"extract"}
      [] p = "extracted" -> {"cluster"}
      [] p = "clustered" -> {"templates"}
      [] p = "templated" -> IF params_noise_levels = NoArray
                            THEN {"noise", "sparsity"} ELSE {"sparsity"}
      [] p = "configured" -> {"merge"}
      [] OTHER -> {}

\* line 139: a boolean index of another length than the peak list.
IndexError == pc = "clustered" /\ Len(peak_labels) # Len(peaks)

Raises == fault \in FaultAt(pc) \/ IndexError

\* lines 67-90 (verbose, lines 72-75, only guards the prints of lines 161-162
\* and 180-181; line 85 draws the name from Python's random module, not numpy)
Setup ==
    /\ pc = "start"
    /\ fault # "no_hdbscan"
    /\ job_kwargs' = fix_job_kwargs(params_job_kwargs)
    /\ np_random' = np_random_seed(params_random_seed)
    /\ \E f \in TmpFolderChoices(params_tmp_folder) :
          /\ tmp_folder' = f
          /\ dirs' = dirs \cup {f}
    /\ pc' = "setup"
    /\ UNCHANGED <<paramVars, argVars, params_noise_levels, pipeVars, threadVars,
                   projections, hdbscan_data, peak_labels, spikes, unit_ids, templates,
                   sparsity, used_noise, cleaning_matching_params, extract_job,
                   templates_job, merge_in, duplicates, out_labels, out_peak_labels>>

\* lines 92-123
BuildNodes ==
    /\ pc = "setup"
    /\ projections' = Projections(np_random, get_num_channels(recording),
                                  default_nb_projections)
    /\ np_random' = StateAfter(np_random,
                        get_num_channels(recording)
                        * num_projections(get_num_channels(recording),
                                          default_nb_projections))
    /\ pc' = "nodes"
    /\ UNCHANGED <<paramVars, argVars, params_noise_levels, dirs, pipeVars, threadVars,
                   job_kwargs, tmp_folder, hdbscan_data, peak_labels, spikes, unit_ids,
                   templates, sparsity, used_noise, cleaning_matching_params,
                   extract_job, templates_job, merge_in, duplicates, out_labels,
                   out_peak_labels>>

\* lines 125-127
ExtractFeatures ==
    /\ pc = "nodes"
    /\ fault # "extract"
    /\ hdbscan_data' = run_node_pipeline(peaks, projections)
    /\ extract_job' = job_kwargs
    /\ pc' = "extracted"
    /\ UNCHANGED <<paramVars, argVars, params_noise_levels, np_random, dirs, pipeVars,
                   threadVars, job_kwargs, tmp_folder, projections, peak_labels, spikes,
                   unit_ids, templates, sparsity, used_noise, cleaning_matching_params,
                   templates_job, merge_in, duplicates, out_labels, out_peak_labels>>

\* lines 131-132
Cluster ==
    /\ pc = "extracted"
    /\ fault # "cluster"
    /\ \E l \in Labelings(Len(hdbscan_data)) : peak_labels' = l
    /\ pc' = "clustered"
    /\ UNCHANGED <<paramVars, argVars, params_noise_levels, np_random, dirs, pipeVars,
                   threadVars, job_kwargs, tmp_folder, projections, hdbscan_data, spikes,
                   unit_ids, templates, sparsity, used_noise, cleaning_matching_params,
                   extract_job, templates_job, merge_in, duplicates, out_labels,
                   out_peak_labels>>

\* lines 134-154
EstimateTemplates ==
    /\ pc = "clustered"
    /\ ~Raises
    /\ spikes' = Spikes(peaks, peak_labels)
    /\ unit_ids' = UnitIds(spikes')
    /\ templates' = DenseTemplates(recording, unit_ids')
    /\ templates_job' = job_kwargs
    /\ pc' = "templated"
    /\ UNCHANGED <<paramVars, argVars, params_noise_levels, np_random, dirs, pipeVars,
                   threadVars, job_kwargs, tmp_folder, projections, hdbscan_data,
                   peak_labels, sparsity, used_noise, cleaning_matching_params,
                   extract_job, merge_in, duplicates, out_labels, out_peak_labels>>

\* lines 155-159
Sparsify ==
    /\ pc = "templated"
    /\ fault # "sparsity"
    /\ fault = "noise" => params_noise_levels # NoArray
    /\ params_noise_levels' = IF params_noise_levels = NoArray
                              THEN get_noise_levels(recording)
                              ELSE params_noise_levels
    /\ used_noise' = params_noise_levels'
    /\ \E mask \in SparsityMasks(recording, unit_ids) :
          /\ sparsity' = mask
          /\ templates' = SparseTemplates(templates, mask)
    /\ pc' = "sparsified"
    /\ UNCHANGED <<paramVars, argVars, np_random, dirs, pipeVars, threadVars, job_kwargs,
                   tmp_folder, projections, hdbscan_data, peak_labels, spikes, unit_ids,
                   cleaning_matching_params, extract_job, templates_job, merge_in,
                   duplicates, out_labels, out_peak_labels>>

\* lines 164-174
Configure ==
    /\ pc = "sparsified"
    /\ cleaning_matching_params' = BuildCleaningParams(job_kwargs)
    /\ pc' = "configured"
    /\ UNCHANGED <<paramVars, argVars, params_noise_levels, np_random, dirs, pipeVars,
                   threadVars, job_kwargs, tmp_folder, projections, hdbscan_data,
                   peak_labels, spikes, unit_ids, templates, sparsity, used_noise,
                   extract_job, templates_job, merge_in, duplicates, out_labels,
                   out_peak_labels>>

\* lines 176-183
MergeAndReturn ==
    /\ pc = "configured"
    /\ fault # "merge"
    /\ merge_in' = [templates |-> templates,
                    peak_labels |-> LabelsForMerge(peak_labels),
                    job_kwargs |-> cleaning_matching_params,
                    tmp_folder |-> tmp_folder]
    /\ \E dup \in MergeChoices(templates) :
          /\ duplicates' = dup
          /\ out_labels' = MergedUnits(templates, dup)
          /\ out_peak_labels' = MergedLabels(LabelsForMerge(peak_labels), dup)
    /\ pc' = "done"
    /\ UNCHANGED <<paramVars, argVars, params_noise_levels, np_random, dirs, pipeVars,
                   threadVars, job_kwargs, tmp_folder, projections, hdbscan_data,
                   peak_labels, spikes, unit_ids, templates, sparsity, used_noise,
                   cleaning_matching_params, extract_job, templates_job>>

\* An exception leaves main_function: no handler, no finally (lines 66-183).
Raise ==
    /\ Raises
    /\ pc' = "failed"
    /\ UNCHANGED <<paramVars, argVars, localVars, params_noise_levels, np_random, dirs,
                   pipeVars, threadVars>>

\* The call is over: its frame is gone, while the params mapping, the
\* generator and the file system stay as the call left them.
Exit ==
    /\ pc \in {"done", "failed"}
    /\ pc' = "idle"
    /\ fault' = "none"
    /\ recording' = 1
    /\ peaks' = <<>>
    /\ noise_at_call' = NoArray
    /\ job_kwargs' = NoDict
    /\ tmp_folder' = None
    /\ projections' = <<>>
    /\ hdbscan_data' = <<>>
    /\ peak_labels' = <<>>
    /\ spikes' = <<>>
    /\ unit_ids' = <<>>
    /\ templates' = <<>>
    /\ sparsity' = <<>>
    /\ used_noise' = NoArray
    /\ cleaning_matching_params' = NoDict
    /\ extract_job' = NoDict
    /\ templates_job' = NoDict
    /\ merge_in' = NoMergeIn
    /\ duplicates' = <<>>
    /\ out_labels' = <<>>
    /\ out_peak_labels' = <<>>
    /\ UNCHANGED <<paramVars, params_noise_levels, np_random, dirs, pipeVars, threadVars>>

\* The next call, with the same params mapping, generator and file system.
Call ==
    /\ pc = "idle"
    /\ pc' = "start"
    /\ fault' \in Faults
    /\ recording' \in Recordings
    /\ peaks' \in {SpreadPeaks(n) : n \in 0..MaxPeaks}
    /\ noise_at_call' = params_noise_levels
    /\ UNCHANGED <<paramVars, localVars, params_noise_levels, np_random, dirs, pipeVars,
                   threadVars>>

Run ==
    \/ Setup
    \/ BuildNodes
    \/ ExtractFeatures
    \/ Cluster
    \/ EstimateTemplates
    \/ Sparsify
    \/ Configure
    \/ MergeAndReturn
    \/ Raise

Next == Run \/ Exit \/ Call

Spec == Init /\ [][Next]_vars

InitJobs == InitWith(CallerJobKwargs, {SpreadPeaks(n) : n \in 0..1}, {"none", "merge"})

SpecJobs == InitJobs /\ [][Run]_vars


\* ====================================================== the pipeline run
\* run_node_pipeline unfolded: chunk tasks are handed to at most p_workers
\* workers in chunk order, finish in any order, and the outputs are assembled
\* when all have finished.
InitPipeline ==
    /\ pc = "nodes"
    /\ fault = "none"
    /\ recording = 1
    /\ peaks \in UNION {SortedPeaks(n) : n \in 0..MaxPeaks}
    /\ ParamsInit({NoDict})
    /\ params_noise_levels = NoArray
    /\ params_tmp_folder = None
    /\ job_kwargs = NoDict
    /\ tmp_folder = None
    /\ projections = Projections(np_random_seed(default_random_seed),
                                 get_num_channels(recording), default_nb_projections)
    /\ hdbscan_data = <<>>
    /\ peak_labels = <<>>
    /\ spikes = <<>>
    /\ unit_ids = <<>>
    /\ templates = <<>>
    /\ sparsity = <<>>
    /\ used_noise = NoArray
    /\ cleaning_matching_params = NoDict
    /\ extract_job = NoDict
    /\ templates_job = NoDict
    /\ merge_in = NoMergeIn
    /\ duplicates = <<>>
    /\ out_labels = <<>>
    /\ out_peak_labels = <<>>
    /\ p_pc = "running"
    /\ p_workers \in 1..MaxWorkers
    /\ p_next = 1
    /\ p_inflight = {}
    /\ p_results = [k \in ChunkIds |-> <<>>]
    /\ p_order = <<>>
    /\ IdleThreads

P_Dispatch ==
    /\ p_pc = "running"
    /\ p_next <= NumChunks
    /\ Cardinality(p_inflight) < p_workers
    /\ p_inflight' = p_inflight \cup {p_next}
    /\ p_next' = p_next + 1
    /\ UNCHANGED <<pc, paramVars, argVars, localVars, params_noise_levels, np_random,
                   dirs, threadVars, p_pc, p_workers, p_results, p_order>>

P_Complete(k) ==
    /\ p_pc = "running"
    /\ k \in p_inflight
    /\ p_results' = [p_results EXCEPT ![k] = ChunkOutput(peaks, k, projections)]
    /\ p_order' = Append(p_order, k)
    /\ p_inflight' = p_inflight \ {k}
    /\ UNCHANGED <<pc, paramVars, argVars, localVars, params_noise_levels, np_random,
                   dirs, threadVars, p_pc, p_workers, p_next>>

P_Assemble ==
    /\ p_pc = "running"
    /\ p_next > NumChunks
    /\ p_inflight = {}
    /\ hdbscan_data' = ConcatIn(p_results, AssembleOrder(p_order))
    /\ p_pc' = "done"
    /\ UNCHANGED <<pc, paramVars, argVars, params_noise_levels, np_random, dirs,
                   threadVars, p_workers, p_next, p_inflight, p_results, p_order,
                   job_kwargs, tmp_folder, projections, peak_labels, spikes, unit_ids,
                   templates, sparsity, used_noise, cleaning_matching_params,
                   extract_job, templates_job, merge_in, duplicates, out_labels,
                   out_peak_labels>>

NextPipeline ==
    \/ P_Dispatch
    \/ \E k \in ChunkIds : P_Complete(k)
    \/ P_Assemble

SpecPipeline == InitPipeline /\ [][NextPipeline]_vars

\* =================================== two calls interleaved in one process
\* Each thread runs main_function; the steps that touch numpy's generator are
\* line 82 (seed) and lines 104-108 (draw and normalise).
Seeds == {7, default_random_seed}

InitConcurrent ==
    /\ pc = "idle"
    /\ fault = "none"
    /\ recording = 1
    /\ peaks = <<>>
    /\ ParamsInit({NoDict})
    /\ params_noise_levels = NoArray
    /\ params_tmp_folder = None
    /\ FreshLocals
    /\ IdlePipeline
    /\ t_pc = [t \in Threads |-> "start"]
    /\ t_seed \in [Threads -> Seeds]
    /\ t_chans \in [Threads -> 1..MaxChans]
    /\ t_nbproj \in [Threads -> {2, default_nb_projections}]
    /\ t_basis = [t \in Threads |-> <<>>]

\* line 82
T_Seed(t) ==
    /\ t_pc[t] = "start"
    /\ np_random' = np_random_seed(t_seed[t])
    /\ t_pc' = [t_pc EXCEPT ![t] = "seeded"]
    /\ UNCHANGED <<pc, paramVars, argVars, localVars, params_noise_levels, dirs,
                   pipeVars, t_seed, t_chans, t_nbproj, t_basis>>

\* lines 104-108
T_BuildNodes(t) ==
    /\ t_pc[t] = "seeded"
    /\ t_basis' = [t_basis EXCEPT ![t] = Projections(np_random, t_chans[t], t_nbproj[t])]
    /\ np_random' = StateAfter(np_random,
                        t_chans[t] * num_projections(t_chans[t], t_nbproj[t]))
    /\ t_pc' = [t_pc EXCEPT ![t] = "built"]
    /\ UNCHANGED <<pc, paramVars, argVars, localVars, params_noise_levels, dirs,
                   pipeVars, t_seed, t_chans, t_nbproj>>

NextConcurrent ==
    \/ \E t \in Threads : T_Seed(t)
    \/ \E t \in Threads : T_BuildNodes(t)

SpecConcurrent == InitConcurrent /\ [][NextConcurrent]_vars


\* ================================================================= claims
Returned == pc = "done"

AllSentinel(pl) == \A i \in DOMAIN pl : pl[i] = Sentinel

RawClusters == Range(peak_labels) \ {Sentinel}

Relabelled(v) == IF v \in DOMAIN duplicates THEN duplicates[v] ELSE v

\* C1: the per-peak labels main_function returns have one entry per input
\* peak, in peak order: row i of the feature matrix is peak i, the clusterer's
\* label array has one entry per peak, and after the merge step entry i is the
\* (possibly relabelled) label the clusterer gave to peak i.
C1_LabelsFollowPeaks ==
    /\ pc \in {"clustered", "templated", "sparsified", "configured", "done"}
          => /\ Len(peak_labels) = Len(peaks)
             /\ \A i \in DOMAIN hdbscan_data : hdbscan_data[i].peak = i
    /\ Returned
          => /\ Len(out_peak_labels) = Len(peaks)
             /\ \A i \in DOMAIN peaks : out_peak_labels[i] = Relabelled(peak_labels[i])

C1_Witness ==
    /\ Returned
    /\ Len(peaks) >= 2
    /\ \E i \in DOMAIN peaks : peak_labels[i] = Sentinel
    /\ \E i \in DOMAIN peaks :
          peak_labels[i] # Sentinel /\ out_peak_labels[i] # peak_labels[i]

\* C2 (as claimed): every returned label is the sentinel or an id of the
\* returned unit id list.
C2_LabelsReferToReturnedUnits ==
    Returned =>
        \A i \in DOMAIN out_peak_labels :
            out_peak_labels[i] = Sentinel \/ out_peak_labels[i] \in Range(out_labels)

EmptyUnits == {u \in DOMAIN sparsity : sparsity[u] = {}}

\* C3: a unit whose template keeps no channel is not among the templates the
\* merge step receives and is not in the returned unit id list.
C3_EmptyTemplatesRemoved ==
    /\ pc \in {"sparsified", "configured"} => TemplateIds(templates) \cap EmptyUnits = {}
    /\ Returned
          => /\ TemplateIds(merge_in.templates) \cap EmptyUnits = {}
             /\ Range(out_labels) \cap EmptyUnits = {}

C3_Witness ==
    /\ Returned
    /\ EmptyUnits # {}
    /\ Range(out_labels) # {}

\* C4 (as claimed): the returned unit ids are exactly 0..K-1.
C4_UnitIdsContiguous == Returned => out_labels = arange(Len(out_labels))

\* C4 (amended): the returned unit ids are strictly increasing and each is one
\* of the ids 0..K-1 of the K raw clusters.
C4_UnitIdsAmongRawIds ==
    Returned =>
        /\ \A i \in DOMAIN out_labels : \A j \in DOMAIN out_labels :
              i < j => out_labels[i] < out_labels[j]
        /\ Range(out_labels) \subseteq 0..(Cardinality(RawClusters) - 1)

C4_Witness ==
    /\ Returned
    /\ out_labels # <<>>
    /\ out_labels # arange(Len(out_labels))

\* C5: when the clusterer labels every peak with the sentinel, the call
\* returns an empty unit id list and one sentinel per peak, and no error is
\* raised unless a collaborator fails.
C5_NoClusters ==
    /\ (Returned /\ AllSentinel(peak_labels))
          => /\ out_labels = <<>>
             /\ out_peak_labels = [i \in DOMAIN peaks |-> Sentinel]
    /\ pc = "failed" => fault # "none"

C5_Witness ==
    /\ Returned
    /\ Len(peaks) > 0
    /\ AllSentinel(peak_labels)
    /\ fault = "none"

\* C6 (as claimed): once the call is over, by return or by exception, the
\* working directory it created is gone.
C6_TmpFolderRemoved ==
    (pc \in {"done", "failed"} /\ tmp_folder # None) => tmp_folder \notin dirs

\* C7: the merge step's job configuration has n_jobs = 1, chunk_duration =
\* "100ms", verbose = False, progress_bar = False and every other chunk-sizing
\* option the caller gave set to None; extraction and template estimation ran
\* with the caller's own configuration, which is left as it was.
MergeSettings(jk) ==
    /\ {"n_jobs", "chunk_duration", "verbose", "progress_bar"} \subseteq DOMAIN jk
    /\ jk["n_jobs"] = "1"
    /\ jk["chunk_duration"] = "100ms"
    /\ jk["verbose"] = "False"
    /\ jk["progress_bar"] = "False"
    /\ \A k \in {"chunk_size", "chunk_memory", "total_memory"} :
          k \in DOMAIN params_job_kwargs => (k \in DOMAIN jk /\ jk[k] = None)

C7_MergeJobConfiguration ==
    /\ pc = "configured" => MergeSettings(cleaning_matching_params)
    /\ Returned => MergeSettings(merge_in.job_kwargs)
    /\ pc \in {"configured", "done"}
          => /\ job_kwargs = fix_job_kwargs(params_job_kwargs)
             /\ extract_job = job_kwargs
             /\ templates_job = job_kwargs
             /\ \A k \in DOMAIN params_job_kwargs : job_kwargs[k] = CallerValue(k)

C7_Witness ==
    /\ Returned
    /\ {"n_jobs", "chunk_size", "total_memory", "verbose"} \subseteq DOMAIN params_job_kwargs
    /\ extract_job["n_jobs"] = "2"
    /\ merge_in.job_kwargs["chunk_size"] = None

\* C8: whatever order the chunk tasks finish in, row i of the assembled
\* feature matrix is the feature vector of input peak i.
C8_FeaturesInPeakOrder ==
    p_pc = "done" =>
        /\ Len(hdbscan_data) = Len(peaks)
        /\ \A i \in DOMAIN peaks : hdbscan_data[i] = FeatureOf(peaks, i, projections)

C8_Witness ==
    /\ p_pc = "done"
    /\ \E i \in DOMAIN p_order : \E j \in DOMAIN p_order :
          /\ i < j
          /\ p_order[i] > p_order[j]
          /\ p_results[p_order[i]] # <<>>
          /\ p_results[p_order[j]] # <<>>

\* C9 (as claimed): the basis a run builds is the one its own seed and
\* channel/projection counts decide, whatever the other run does.
C9_BasisFromOwnSeed ==
    \A t \in Threads :
        t_pc[t] = "built"
            => t_basis[t] = Projections(np_random_seed(t_seed[t]), t_chans[t], t_nbproj[t])

\* C10 (as claimed): when the caller gave no noise levels, a call uses the
\* noise levels of its own recording and leaves params["noise_levels"] as it
\* found it.
C10_NoiseLevelsOfOwnRecording ==
    (supplied_noise = NoArray /\ pc \in {"sparsified", "configured", "done"})
        => /\ used_noise = get_noise_levels(recording)
           /\ params_noise_levels = noise_at_call

====
